---- MODULE Spec2Model ----
(***************************************************************************)
(* The LMDB adapter of ithos (src/src/lmdb_adapter.rs): three tables       *)
(* (blocks, nodes, entries) inside one environment, read-write and         *)
(* read-only transactions over them, and the adapter's operations          *)
(* next_available_id, add_block, add_entry, find_node and find_entry.      *)
(*                                                                         *)
(* A table is a set of <<key, value>> pairs.  A read-write transaction     *)
(* works on its own copy of the tables, which replaces the committed       *)
(* tables on commit and is discarded on drop; a read-only transaction      *)
(* reads the copy taken when it was opened.                                *)
(*                                                                         *)
(* Specifications: Spec (the namespace under two writers, arbitrary ids,   *)
(* parents and names), SpecRead (one writer beside a reader), SpecLog (the *)
(* block log) and SpecAlloc (callers that take every id from               *)
(* next_available_id).  Store-layer failures of put and commit are not     *)
(* modelled: every put and every commit succeeds.                          *)
(***************************************************************************)
EXTENDS Integers, Sequences, FiniteSets, TLC

\* committed, rw, ro, ret: the store, its transactions and the adapter's last
\* result.  scrypt, call: the password hashing function and the last call of
\* the functions that work on values only (password.rs, witness.rs).
VARIABLES committed, rw, ro, ret, scrypt, call

vars == <<committed, rw, ro, ret, scrypt, call>>

----------------------------------------------------------------------------
\* Bounds of the model.

\* Paths have at most MaxPathLen components.
MaxPathLen == 2
\* At most MaxEntries rows are staged in the entries table.
MaxEntries == 2

Writers == {"w1", "w2"}
Readers == {"r1"}
FirstWriter == "w1"
NameSeq == <<"a", "b">>
Names == {NameSeq[i] : i \in 1..Len(NameSeq)}
ObjectClasses == {"Domain", "Host"}
BlockIds == {"b1", "b2"}
Payloads == {"p", "q"}

----------------------------------------------------------------------------
\* Values of the types the adapter imports (server::Id, server::Node,
\* server::Path, objectclass::ObjectClass, log::Block).

\* Id::root(): the reserved id of the root of the namespace.
RootId == 0

\* Id::next(): the successor of an id.
IdNext(id) == id + 1

\* The ids the calls draw from.
Ids == RootId..2

\* Id::as_bytes / Id::from_bytes: an id is its own key; keys order numerically.
IdAsBytes(id) == id

IdFromBytes(bytes) == bytes

\* Node::root(): the node the empty path resolves to.
NodeRoot == [id |-> RootId, parent_id |-> RootId, name |-> ""]

\* Node::to_bytes: the value stored under the parent's key holds the node's
\* id and name, not its parent.
NodeToBytes(node) == <<IdAsBytes(node.id), node.name>>

\* Node::from_parent_id_and_bytes.
NodeFromParentIdAndBytes(parent_id, bytes) ==
    [id |-> IdFromBytes(bytes[1]), parent_id |-> parent_id, name |-> bytes[2]]

\* ObjectClass::to_string: the tag written to the entries table.
ObjectClassToString(oc) ==
    CASE oc = "Domain" -> "domain"
      [] oc = "Host" -> "host"
      [] OTHER -> "other"

Ok(v) == <<"Ok", v>>

Err(e) == <<"Err", e>>

IsOk(r) == r[1] = "Ok"

IsErr(r, e) == r[1] = "Err" /\ r[2] = e

\* ObjectClass::from_bytes.
ObjectClassFromBytes(bytes) ==
    IF \E oc \in ObjectClasses : ObjectClassToString(oc) = bytes
    THEN Ok(CHOOSE oc \in ObjectClasses : ObjectClassToString(oc) = bytes)
    ELSE Err("Parse")

\* buffoon::serialize(&block): the bytes stored for a block.
Serialize(block) == <<block.id, block.payload>>

Blocks == [id : BlockIds, payload : Payloads]

\* Path.components: the name components of a path, root first.
Paths == UNION {[1..n -> Names] : n \in 0..MaxPathLen}

----------------------------------------------------------------------------
\* The tables (create_database) and the store's reads and writes on them.

\* A store none of whose tables is DUP_SORT.
DupSortNone(table) == FALSE

\* create_database: the nodes table is created DUP_SORT, the others are not.
DupSort(table) == table = "nodes"

EmptyDb == [blocks |-> {}, nodes |-> {}, entries |-> {}]

\* The values stored under a key.
Vals(rows, key) == {kv[2] : kv \in {x \in rows : x[1] = key}}

\* The keys of a table.
Keys(rows) == {kv[1] : kv \in rows}

\* The order a DUP_SORT table keeps the values of one key in: by their bytes,
\* the id first and then the name.
NameRank(name) == CHOOSE i \in 1..Len(NameSeq) : NameSeq[i] = name

ValLeq(u, v) ==
    \/ u = v
    \/ u[1] < v[1]
    \/ (u[1] = v[1] /\ NameRank(u[2]) < NameRank(v[2]))

FirstVal(vals) == CHOOSE v \in vals : \A u \in vals : ValLeq(v, u)

\* Transaction::get: the (first) value under the key, or NotFound.
Get(db, table, key) ==
    IF Vals(db[table], key) = {}
    THEN Err("NotFound")
    ELSE Ok(FirstVal(Vals(db[table], key)))

\* The order of the rows of a table: by key, and by value under one key.
RowLeq(x, y) == x[1] < y[1] \/ (x[1] = y[1] /\ ValLeq(x[2], y[2]))

\* Transaction::find whose loop does not return when the cursor has left the
\* key.
FindPastKey(db, table, key, predicate) ==
    LET RECURSIVE Scan(_)
        Scan(rest) ==
            IF rest = {}
            THEN Err("NotFound")
            ELSE LET cursor == CHOOSE x \in rest : \A y \in rest : RowLeq(x, y)
                 IN  IF predicate[cursor[2]]
                     THEN Ok(cursor[2])
                     ELSE Scan(rest \ {cursor})
    IN  Scan({x \in db[table] : x[1] >= key})

\* Transaction::find: the cursor is put on the first row whose key is not
\* less than the key (iter_from) and moves on row by row; the loop returns
\* NotFound as soon as the cursor's key is another one, returns the first
\* value that satisfies the predicate (a function of the value), and returns
\* NotFound when the rows run out.
Find(db, table, key, predicate) ==
    LET RECURSIVE Scan(_)
        Scan(rest) ==
            IF rest = {}
            THEN Err("NotFound")
            ELSE LET cursor == CHOOSE x \in rest : \A y \in rest : RowLeq(x, y)
                 IN  IF cursor[1] # key
                     THEN Err("NotFound")
                     ELSE IF predicate[cursor[2]]
                     THEN Ok(cursor[2])
                     ELSE Scan(rest \ {cursor})
    IN  Scan({x \in db[table] : x[1] >= key})

\* RwTransaction::put with WriteFlags::empty(): a DUP_SORT table gains the
\* value under the key, any other table has the key's value replaced.
Put(db, table, key, data) ==
    [db EXCEPT ![table] =
        IF DupSort(table)
        THEN @ \cup {<<key, data>>}
        ELSE {x \in @ : x[1] # key} \cup {<<key, data>>}]

----------------------------------------------------------------------------
\* The adapter's operations, as functions of the tables a transaction sees.

\* The ids of the nodes a nodes table holds.
NodeIds(db) == {IdFromBytes(kv[2][1]) : kv \in db.nodes}

\* LmdbAdapter::find_child_node: the first node stored under parent_id whose
\* name is the given one.
find_child_node(db, parent_id, name) ==
    LET node_bytes ==
            Find(db, "nodes", IdAsBytes(parent_id),
                 [node_bytes \in {kv[2] : kv \in db.nodes} |->
                     NodeFromParentIdAndBytes(parent_id, node_bytes).name = name])
    IN  IF IsOk(node_bytes)
        THEN Ok(NodeFromParentIdAndBytes(parent_id, node_bytes[2]))
        ELSE node_bytes

\* next_available_id with the cursor put on the first key (MDB_FIRST).
next_available_id_first_key(db) ==
    LET keys == Keys(db.nodes)
        first_id == IF keys = {}
                    THEN RootId
                    ELSE IdFromBytes(CHOOSE k \in keys : \A j \in keys : k <= j)
    IN  Ok(IdNext(first_id))

\* next_available_id: the successor of the id decoded from the last key of the
\* nodes table (MDB_LAST), or of the root id when the table is empty.
next_available_id(db) ==
    LET keys == Keys(db.nodes)
        last_id == IF keys = {}
                   THEN RootId
                   ELSE IdFromBytes(CHOOSE k \in keys : \A j \in keys : j <= k)
    IN  Ok(IdNext(last_id))

\* add_block without the lookup of the block's id.
add_block_unchecked(db, block) ==
    LET serialized == Serialize(block)
    IN  [db |-> Put(db, "blocks", block.id, serialized), res |-> Ok("unit")]

\* add_block that refuses a block only when the very same bytes are stored
\* under its id.
add_block_same_bytes(db, block) ==
    LET serialized == Serialize(block)
    IN  IF Get(db, "blocks", block.id) = Ok(serialized)
        THEN [db |-> db, res |-> Err("EntryAlreadyExists")]
        ELSE [db |-> Put(db, "blocks", block.id, serialized), res |-> Ok("unit")]

\* add_block: [db, res], the tables after the call and what it returns.
add_block(db, block) ==
    LET serialized == Serialize(block)
    IN  IF ~IsErr(Get(db, "blocks", block.id), "NotFound")
        THEN [db |-> db, res |-> Err("EntryAlreadyExists")]
        ELSE [db |-> Put(db, "blocks", block.id, serialized), res |-> Ok("unit")]

\* add_entry with the sibling looked up under the new id instead of under
\* the parent.
add_entry_sibling_under_id(db, id, parent_id, name, objectclass) ==
    IF ~IsErr(Get(db, "entries", IdAsBytes(id)), "NotFound")
    THEN [db |-> db, res |-> Err("EntryAlreadyExists")]
    ELSE IF /\ ~IsErr(Get(db, "nodes", IdAsBytes(parent_id)), "NotFound")
            /\ ~IsErr(find_child_node(db, id, name), "NotFound")
    THEN [db |-> db, res |-> Err("EntryAlreadyExists")]
    ELSE LET node == [id |-> id, parent_id |-> parent_id, name |-> name]
             db1 == Put(db, "nodes", IdAsBytes(parent_id), NodeToBytes(node))
             db2 == Put(db1, "entries", IdAsBytes(id), ObjectClassToString(objectclass))
         IN  [db |-> db2, res |-> Ok([node |-> node, objectclass |-> objectclass])]

\* add_entry with the id looked up in the nodes table instead of the entries
\* table.
add_entry_id_in_nodes(db, id, parent_id, name, objectclass) ==
    IF ~IsErr(Get(db, "nodes", IdAsBytes(id)), "NotFound")
    THEN [db |-> db, res |-> Err("EntryAlreadyExists")]
    ELSE IF /\ ~IsErr(Get(db, "nodes", IdAsBytes(parent_id)), "NotFound")
            /\ ~IsErr(find_child_node(db, parent_id, name), "NotFound")
    THEN [db |-> db, res |-> Err("EntryAlreadyExists")]
    ELSE LET node == [id |-> id, parent_id |-> parent_id, name |-> name]
             db1 == Put(db, "nodes", IdAsBytes(parent_id), NodeToBytes(node))
             db2 == Put(db1, "entries", IdAsBytes(id), ObjectClassToString(objectclass))
         IN  [db |-> db2, res |-> Ok([node |-> node, objectclass |-> objectclass])]

\* add_entry: [db, res], the tables after the call and what it returns.
add_entry(db, id, parent_id, name, objectclass) ==
    IF ~IsErr(Get(db, "entries", IdAsBytes(id)), "NotFound")
    THEN [db |-> db, res |-> Err("EntryAlreadyExists")]
    ELSE IF /\ ~IsErr(Get(db, "nodes", IdAsBytes(parent_id)), "NotFound")
            /\ ~IsErr(find_child_node(db, parent_id, name), "NotFound")
    THEN [db |-> db, res |-> Err("EntryAlreadyExists")]
    ELSE LET node == [id |-> id, parent_id |-> parent_id, name |-> name]
             db1 == Put(db, "nodes", IdAsBytes(parent_id), NodeToBytes(node))
             db2 == Put(db1, "entries", IdAsBytes(id), ObjectClassToString(objectclass))
         IN  [db |-> db2, res |-> Ok([node |-> node, objectclass |-> objectclass])]

\* RwTransaction::put when the store may refuse the write: [db, res], the
\* tables after the call and Ok or Err(Transaction).  A refused put writes
\* nothing.
PutOrFail(db, table, key, data, fails) ==
    IF fails
    THEN [db |-> db, res |-> Err("Transaction")]
    ELSE [db |-> Put(db, table, key, data), res |-> Ok("unit")]

\* The puts of add_entry.
EntryPuts == {"nodes", "entries"}

\* add_entry when the store refuses the put on the table failing_put ("none"
\* when it refuses neither): the error of a put is returned as DbWrite by
\* try!, at once, with what was put before left in the transaction.
add_entry_put_fails(db, id, parent_id, name, objectclass, failing_put) ==
    IF ~IsErr(Get(db, "entries", IdAsBytes(id)), "NotFound")
    THEN [db |-> db, res |-> Err("EntryAlreadyExists")]
    ELSE IF /\ ~IsErr(Get(db, "nodes", IdAsBytes(parent_id)), "NotFound")
            /\ ~IsErr(find_child_node(db, parent_id, name), "NotFound")
    THEN [db |-> db, res |-> Err("EntryAlreadyExists")]
    ELSE LET node == [id |-> id, parent_id |-> parent_id, name |-> name]
             put1 == PutOrFail(db, "nodes", IdAsBytes(parent_id), NodeToBytes(node),
                               failing_put = "nodes")
             put2 == PutOrFail(put1.db, "entries", IdAsBytes(id),
                               ObjectClassToString(objectclass),
                               failing_put = "entries")
         IN  IF ~IsOk(put1.res)
             THEN [db |-> put1.db, res |-> Err("DbWrite")]
             ELSE IF ~IsOk(put2.res)
             THEN [db |-> put2.db, res |-> Err("DbWrite")]
             ELSE [db |-> put2.db,
                   res |-> Ok([node |-> node, objectclass |-> objectclass])]

\* The fold of find_node with every component looked up under the root.
RECURSIVE FoldComponentsUnderRoot(_, _, _)
FoldComponentsUnderRoot(db, parent_node, components) ==
    IF components = <<>>
    THEN parent_node
    ELSE FoldComponentsUnderRoot(db,
                                 IF IsOk(parent_node)
                                 THEN find_child_node(db, RootId, Head(components))
                                 ELSE parent_node,
                                 Tail(components))

\* The fold of find_node without the early return: after a component that is
\* not found the next one is looked up from the root again.
RECURSIVE FoldComponentsNoReturn(_, _, _)
FoldComponentsNoReturn(db, parent_node, components) ==
    IF components = <<>>
    THEN parent_node
    ELSE FoldComponentsNoReturn(db,
                                find_child_node(db,
                                                IF IsOk(parent_node)
                                                THEN parent_node[2].id
                                                ELSE RootId,
                                                Head(components)),
                                Tail(components))

\* The fold of find_node: each component is looked up as a child of the node
\* resolved so far; an error is carried through the remaining components.
RECURSIVE FoldComponents(_, _, _)
FoldComponents(db, parent_node, components) ==
    IF components = <<>>
    THEN parent_node
    ELSE FoldComponents(db,
                        IF IsOk(parent_node)
                        THEN find_child_node(db, parent_node[2].id, Head(components))
                        ELSE parent_node,
                        Tail(components))

\* find_node.
find_node(db, path) == FoldComponents(db, Ok(NodeRoot), path)

\* find_entry that passes the NotFound of the entries table on.
find_entry_row_not_found(db, path) ==
    LET node == find_node(db, path)
    IN  IF ~IsOk(node)
        THEN node
        ELSE LET entry_bytes == Get(db, "entries", IdAsBytes(node[2].id))
             IN  IF ~IsOk(entry_bytes)
                 THEN entry_bytes
                 ELSE LET objectclass == ObjectClassFromBytes(entry_bytes[2])
                      IN  IF ~IsOk(objectclass)
                          THEN Err("DbCorrupt")
                          ELSE Ok([node |-> node[2], objectclass |-> objectclass[2]])

\* find_entry.
find_entry(db, path) ==
    LET node == find_node(db, path)
    IN  IF ~IsOk(node)
        THEN node
        ELSE LET entry_bytes == Get(db, "entries", IdAsBytes(node[2].id))
             IN  IF ~IsOk(entry_bytes)
                 THEN Err("DbCorrupt")
                 ELSE LET objectclass == ObjectClassFromBytes(entry_bytes[2])
                      IN  IF ~IsOk(objectclass)
                          THEN Err("DbCorrupt")
                          ELSE Ok([node |-> node[2], objectclass |-> objectclass[2]])

----------------------------------------------------------------------------
\* crypto/password.rs: derive and verify.

\* A derived key has at most MaxKeyLen bytes.
MaxKeyLen == 2

\* The values a byte of a derived key takes (a byte has 256 of them).
KeyBytes == {0, 1}

PasswordAlgs == {"SCRYPT"}
Salts == {<<0, 0>>}

\* A password, a proper prefix of it and an extension of it.
Passwords == {"pw", "p", "pwd"}

\* scrypt::scrypt with the parameters of params(): some function of the
\* password and the salt to a stream of bytes, of which the caller's buffer
\* takes as many as it has room for.  Which function it is is not fixed
\* here, except that the streams of two different inputs differ somewhere in
\* their first MaxKeyLen bytes.
Scrypts ==
    {f \in [Passwords \X Salts -> [1..MaxKeyLen -> KeyBytes]] :
        \A x \in DOMAIN f, y \in DOMAIN f : f[x] = f[y] => x = y}

\* The first n bytes of a stream.
Filled(stream, n) == SubSeq(stream, 1, n)

\* derive: the bytes written to an output_key of n bytes.
derive(alg, salt, password, n) == Filled(scrypt[<<password, salt>>], n)

\* verify: a fresh buffer of previously_derived's length is filled from the
\* password and compared with previously_derived.
verify(alg, salt, password, previously_derived) ==
    LET out == Filled(scrypt[<<password, salt>>], Len(previously_derived))
    IN  previously_derived = out

----------------------------------------------------------------------------
\* crypto/password.rs: encode_bubblebabble and generate.  A string is the
\* sequence of its characters.

\* Inputs of encode_bubblebabble have at most MaxBytes bytes.
MaxBytes == 4

\* The byte values the inputs are made of.
BabbleBytes == {0, 3, 36, 97, 255}

\* The element at index i of a slice; the first index is 0.
At(slice, i) == slice[i + 1]

vowels == <<"a", "e", "i", "o", "u", "y">>

consonants ==
    <<"b", "c", "d", "f", "g", "h", "k", "l", "m", "n", "p", "r", "s", "t",
      "v", "z", "x">>

\* The loop of encode_bubblebabble from index i on, with checksum c and the
\* characters pushed so far, up to its break.  The update of c is the last
\* statement of an iteration, so no break carries it out.
EncodeLoopStaleChecksum(bytes, i, c, result) ==
    LET RECURSIVE Loop(_, _)
        Loop(j, r) ==
            IF j >= Len(bytes) + 1 THEN r
            ELSE IF j % 2 # 0 THEN Loop(j + 1, r)
            ELSE IF j >= Len(bytes)
            THEN r \o <<At(vowels, c % 6), At(consonants, 16), At(vowels, c \div 6)>>
            ELSE LET byte1 == At(bytes, j)
                     r1 == r \o <<At(vowels, (((byte1 \div 64) % 4) + c) % 6),
                                  At(consonants, (byte1 \div 4) % 16),
                                  At(vowels, ((byte1 % 4) + (c \div 6)) % 6)>>
                 IN  IF j + 1 >= Len(bytes)
                     THEN r1
                     ELSE LET byte2 == At(bytes, j + 1)
                          IN  Loop(j + 1,
                                   r1 \o <<At(consonants, (byte2 \div 16) % 16), "-",
                                           At(consonants, byte2 % 16)>>)
    IN  Loop(i, result)

\* The loop of encode_bubblebabble with the consonant of byte1 taken from
\* three of its bits, (byte1 >> 2) & 7.
RECURSIVE EncodeLoopNarrowConsonant(_, _, _, _)
EncodeLoopNarrowConsonant(bytes, i, c, result) ==
    IF i >= Len(bytes) + 1 THEN result
    ELSE IF i % 2 # 0 THEN EncodeLoopNarrowConsonant(bytes, i + 1, c, result)
    ELSE IF i >= Len(bytes)
    THEN result \o <<At(vowels, c % 6), At(consonants, 16), At(vowels, c \div 6)>>
    ELSE LET byte1 == At(bytes, i)
             r1 == result \o <<At(vowels, (((byte1 \div 64) % 4) + c) % 6),
                               At(consonants, (byte1 \div 4) % 8),
                               At(vowels, ((byte1 % 4) + (c \div 6)) % 6)>>
         IN  IF i + 1 >= Len(bytes)
             THEN r1
             ELSE LET byte2 == At(bytes, i + 1)
                      r2 == r1 \o <<At(consonants, (byte2 \div 16) % 16), "-",
                                    At(consonants, byte2 % 16)>>
                  IN  EncodeLoopNarrowConsonant(bytes, i + 1,
                                                ((c * 5) + (byte1 * 7) + byte2) % 36, r2)

RECURSIVE EncodeLoop(_, _, _, _)
EncodeLoop(bytes, i, c, result) ==
    IF i >= Len(bytes) + 1 THEN result
    ELSE IF i % 2 # 0 THEN EncodeLoop(bytes, i + 1, c, result)
    ELSE IF i >= Len(bytes)
    THEN result \o <<At(vowels, c % 6), At(consonants, 16), At(vowels, c \div 6)>>
    ELSE LET byte1 == At(bytes, i)
             r1 == result \o <<At(vowels, (((byte1 \div 64) % 4) + c) % 6),
                               At(consonants, (byte1 \div 4) % 16),
                               At(vowels, ((byte1 % 4) + (c \div 6)) % 6)>>
         IN  IF i + 1 >= Len(bytes)
             THEN r1
             ELSE LET byte2 == At(bytes, i + 1)
                      r2 == r1 \o <<At(consonants, (byte2 \div 16) % 16), "-",
                                    At(consonants, byte2 % 16)>>
                  IN  EncodeLoop(bytes, i + 1, ((c * 5) + (byte1 * 7) + byte2) % 36, r2)

\* encode_bubblebabble.
encode_bubblebabble(bytes) == EncodeLoop(bytes, 0, 1, <<"x">>) \o <<"x">>

\* GENPASS_PREFIX.
GENPASS_PREFIX == <<"I", "T", "H", "O", "S", "-", "G", "E", "N", "P", "A", "S", "S">>

DecimalDigits == <<"0", "1", "2", "3", "4", "5", "6", "7", "8", "9">>

\* The decimal digits of a number, without leading zeros.
RECURSIVE Decimal(_)
Decimal(n) ==
    IF n < 10
    THEN <<At(DecimalDigits, n)>>
    ELSE Decimal(n \div 10) \o <<At(DecimalDigits, n % 10)>>

\* format!("{:0width}"): the decimal digits, with zeros put before them while
\* they are fewer than width.
RECURSIVE ZeroPadded(_, _)
ZeroPadded(digits, width) ==
    IF Len(digits) >= width THEN digits ELSE ZeroPadded(<<"0">> \o digits, width)

\* generate whose first group of digits is byte 6 as it is.
generate_unreduced(bytes) ==
    GENPASS_PREFIX \o <<"-">> \o encode_bubblebabble(SubSeq(bytes, 1, 6)) \o <<"-">>
        \o ZeroPadded(Decimal(At(bytes, 6)), 2)
        \o ZeroPadded(Decimal(At(bytes, 7)), 3)

\* generate, of the 8 bytes the random number generator has filled in.
generate(bytes) ==
    GENPASS_PREFIX \o <<"-">> \o encode_bubblebabble(SubSeq(bytes, 1, 6)) \o <<"-">>
        \o ZeroPadded(Decimal(At(bytes, 6) % 100), 2)
        \o ZeroPadded(Decimal(At(bytes, 7)), 3)

----------------------------------------------------------------------------
\* witness.rs: the canonical hash (objecthash) of a Witness.  A digest is the
\* tagged structure it is computed from, so that different structures have
\* different digests.

\* A Witness has at most MaxSignatures signatures.
MaxSignatures == 3

Signatures == {"s1", "s2", "s3"}

\* The digest of a Signature.
SignatureHash(signature) == <<"signature", signature>>

\* The digest of a string.
StringHash(str) == <<"unicode", str>>

\* The digest of an ordered sequence: the tagged sequence of the elements'
\* digests, in order.
ListHash(digests) == <<"list", digests>>

\* The digest of an unordered collection: the tagged digests, whatever their
\* order was.
SetHash(digests) == <<"set", {digests[i] : i \in 1..Len(digests)}>>

\* The digest of a record: the tagged mapping from the digest of each field's
\* name to the digest of the field's value.
StructHash(fields) ==
    <<"dict", {<<StringHash(name), fields[name]>> : name \in DOMAIN fields}>>

\* Witness::get_signatures.
get_signatures(witness) == witness.signatures

\* impl ObjectHash for Witness with the signatures hashed as an unordered
\* collection.
WitnessObjectHashUnordered(witness) ==
    StructHash([signatures |->
        SetHash([i \in 1..Len(get_signatures(witness)) |->
                    SignatureHash(get_signatures(witness)[i])])])

\* impl ObjectHash for Witness: objecthash_struct! with the one field
\* "signatures", whose value is the Vec of the signatures.
WitnessObjectHash(witness) ==
    StructHash([signatures |->
        ListHash([i \in 1..Len(get_signatures(witness)) |->
                    SignatureHash(get_signatures(witness)[i])])])

----------------------------------------------------------------------------
\* The state machine.

Closed == [open |-> FALSE, db |-> EmptyDb]

\* The last call and the kind of result it returned: Ok or the error.
Ret(op, res) == [op |-> op, res |-> IF IsOk(res) THEN "Ok" ELSE res[2]]

\* No call of the value-only functions has been made.
Idle == [op |-> "none"]

Init ==
    /\ committed = EmptyDb
    /\ rw = [w \in Writers |-> Closed]
    /\ ro = [r \in Readers |-> Closed]
    /\ ret = Ret("create_database", Ok("unit"))
    /\ scrypt = CHOOSE f \in Scrypts : TRUE
    /\ call = Idle

\* A read-only transaction that reads the committed tables as they are now.
RoViewLive(r) == committed

\* The tables a read-only transaction reads: those of the moment it began.
RoView(r) == ro[r].db

\* The tables a read-write transaction reads and writes: its own.
RwView(w) == rw[w].db

\* rw_transaction without the store's write lock: a writer begins while
\* another one is open.
RwBeginNoLock(w) ==
    /\ ~rw[w].open
    /\ rw' = [rw EXCEPT ![w] = [open |-> TRUE, db |-> committed]]
    /\ ret' = Ret("rw_transaction", Ok("unit"))
    /\ UNCHANGED <<committed, ro>>
    /\ UNCHANGED <<scrypt, call>>

\* rw_transaction: begin_rw_txn waits for the store's single write lock.
RwBegin(w) ==
    /\ \A v \in Writers : ~rw[v].open
    /\ rw' = [rw EXCEPT ![w] = [open |-> TRUE, db |-> committed]]
    /\ ret' = Ret("rw_transaction", Ok("unit"))
    /\ UNCHANGED <<committed, ro>>
    /\ UNCHANGED <<scrypt, call>>

\* ro_transaction: begin_ro_txn takes the committed tables as they are.
RoBegin(r) ==
    /\ ~ro[r].open
    /\ ro' = [ro EXCEPT ![r] = [open |-> TRUE, db |-> committed]]
    /\ ret' = Ret("ro_transaction", Ok("unit"))
    /\ UNCHANGED <<committed, rw>>
    /\ UNCHANGED <<scrypt, call>>

\* next_available_id, called in a read-write transaction.
NextAvailableId(w) ==
    /\ rw[w].open
    /\ ret' = Ret("next_available_id", next_available_id(RwView(w)))
    /\ UNCHANGED <<committed, rw, ro>>
    /\ UNCHANGED <<scrypt, call>>

\* add_block, called in a read-write transaction.
AddBlock(w, block) ==
    /\ rw[w].open
    /\ LET r == add_block(RwView(w), block)
       IN  /\ rw' = [rw EXCEPT ![w].db = r.db]
           /\ ret' = Ret("add_block", r.res)
    /\ UNCHANGED <<committed, ro>>
    /\ UNCHANGED <<scrypt, call>>

\* add_entry, called in a read-write transaction.
AddEntry(w, id, parent_id, name, objectclass) ==
    /\ rw[w].open
    /\ LET r == add_entry(RwView(w), id, parent_id, name, objectclass)
       IN  /\ Cardinality(r.db.entries) <= MaxEntries
           /\ rw' = [rw EXCEPT ![w].db = r.db]
           /\ ret' = Ret("add_entry", r.res)
    /\ UNCHANGED <<committed, ro>>
    /\ UNCHANGED <<scrypt, call>>

\* add_entry, called with the root or a node that exists as the parent.
AddChildEntry(w, id, parent_id, name, objectclass) ==
    /\ rw[w].open
    /\ parent_id \in {RootId} \cup NodeIds(RwView(w))
    /\ AddEntry(w, id, parent_id, name, objectclass)

\* find_entry, called in a read-only transaction.
RoFindEntry(r, path) ==
    /\ ro[r].open
    /\ ret' = Ret("find_entry", find_entry(RoView(r), path))
    /\ UNCHANGED <<committed, rw, ro>>
    /\ UNCHANGED <<scrypt, call>>

\* Transaction::get on the blocks table, called in a read-only transaction.
RoGetBlock(r, block_id) ==
    /\ ro[r].open
    /\ ret' = Ret("get", Get(RoView(r), "blocks", block_id))
    /\ UNCHANGED <<committed, rw, ro>>
    /\ UNCHANGED <<scrypt, call>>

\* A commit that makes the blocks and nodes tables durable and loses the
\* entries table.
CommitWithoutEntries(w) ==
    /\ rw[w].open
    /\ committed' = [RwView(w) EXCEPT !.entries = committed.entries]
    /\ rw' = [rw EXCEPT ![w] = Closed]
    /\ ret' = Ret("commit", Ok("unit"))
    /\ UNCHANGED ro
    /\ UNCHANGED <<scrypt, call>>

\* Transaction::commit of a read-write transaction: its tables become the
\* committed ones.
Commit(w) ==
    /\ rw[w].open
    /\ committed' = RwView(w)
    /\ rw' = [rw EXCEPT ![w] = Closed]
    /\ ret' = Ret("commit", Ok("unit"))
    /\ UNCHANGED ro
    /\ UNCHANGED <<scrypt, call>>

\* A read-write transaction that goes out of scope uncommitted is aborted.
Drop(w) ==
    /\ rw[w].open
    /\ rw' = [rw EXCEPT ![w] = Closed]
    /\ ret' = Ret("drop", Ok("unit"))
    /\ UNCHANGED <<committed, ro>>
    /\ UNCHANGED <<scrypt, call>>

\* Transaction::commit of a read-only transaction: it only ends it.
RoCommit(r) ==
    /\ ro[r].open
    /\ ro' = [ro EXCEPT ![r] = Closed]
    /\ ret' = Ret("ro_commit", Ok("unit"))
    /\ UNCHANGED <<committed, rw>>
    /\ UNCHANGED <<scrypt, call>>

\* The callers' way of creating an entry: the id is the one next_available_id
\* returns, and add_entry is called with it at once, under the root or under
\* a node that exists.
AllocAddEntry(w, parent_id, name, objectclass) ==
    /\ rw[w].open
    /\ parent_id \in {RootId} \cup NodeIds(RwView(w))
    /\ LET id == next_available_id(RwView(w))[2]
           r == add_entry(RwView(w), id, parent_id, name, objectclass)
       IN  /\ id \in Ids
           /\ rw' = [rw EXCEPT ![w].db = r.db]
           /\ ret' = Ret("add_entry", r.res)
    /\ UNCHANGED <<committed, ro>>
    /\ UNCHANGED <<scrypt, call>>

\* The namespace under its writers: entries are added under arbitrary ids,
\* parents and names, in transactions that are committed or dropped.
Next ==
    \/ \E w \in Writers : RwBegin(w)
    \/ \E w \in Writers : NextAvailableId(w)
    \/ \E w \in Writers, id \in Ids, parent_id \in Ids, name \in Names,
          objectclass \in ObjectClasses :
          AddEntry(w, id, parent_id, name, objectclass)
    \/ \E w \in Writers : Commit(w)
    \/ \E w \in Writers : Drop(w)

Spec == Init /\ [][Next]_vars

\* The namespace under one writer and the readers; entries are added under
\* the root or under a node that exists.
NextRead ==
    \/ RwBegin(FirstWriter)
    \/ \E r \in Readers : RoBegin(r)
    \/ \E id \in Ids, parent_id \in Ids, name \in Names,
          objectclass \in ObjectClasses :
          AddChildEntry(FirstWriter, id, parent_id, name, objectclass)
    \/ \E r \in Readers, path \in Paths : RoFindEntry(r, path)
    \/ Commit(FirstWriter)
    \/ Drop(FirstWriter)
    \/ \E r \in Readers : RoCommit(r)

SpecRead == Init /\ [][NextRead]_vars

\* The block log: blocks are appended, and entries added under the root, in
\* transactions that are committed or dropped, while readers read the log.
NextLog ==
    \/ \E w \in Writers : RwBegin(w)
    \/ \E r \in Readers : RoBegin(r)
    \/ \E w \in Writers, block \in Blocks : AddBlock(w, block)
    \/ \E w \in Writers, id \in Ids, name \in Names :
          AddEntry(w, id, RootId, name, "Domain")
    \/ \E r \in Readers, block_id \in BlockIds : RoGetBlock(r, block_id)
    \/ \E w \in Writers : Commit(w)
    \/ \E w \in Writers : Drop(w)
    \/ \E r \in Readers : RoCommit(r)

SpecLog == Init /\ [][NextLog]_vars

\* Callers that take every id from next_available_id.
NextAlloc ==
    \/ \E w \in Writers : RwBegin(w)
    \/ \E r \in Readers : RoBegin(r)
    \/ \E w \in Writers, parent_id \in Ids, name \in Names,
          objectclass \in ObjectClasses :
          AllocAddEntry(w, parent_id, name, objectclass)
    \/ \E r \in Readers, path \in Paths : RoFindEntry(r, path)
    \/ \E w \in Writers : Commit(w)
    \/ \E w \in Writers : Drop(w)
    \/ \E r \in Readers : RoCommit(r)

SpecAlloc == Init /\ [][NextAlloc]_vars

\* find_child_node, called in a read-write transaction.
RwFindChildNode(w, parent_id, name) ==
    /\ rw[w].open
    /\ ret' = Ret("find_child_node", find_child_node(RwView(w), parent_id, name))
    /\ UNCHANGED <<committed, rw, ro>>
    /\ UNCHANGED <<scrypt, call>>

\* find_node, called in a read-write transaction.
RwFindNode(w, path) ==
    /\ rw[w].open
    /\ ret' = Ret("find_node", find_node(RwView(w), path))
    /\ UNCHANGED <<committed, rw, ro>>
    /\ UNCHANGED <<scrypt, call>>

\* find_entry, called in a read-write transaction.
RwFindEntry(w, path) ==
    /\ rw[w].open
    /\ ret' = Ret("find_entry", find_entry(RwView(w), path))
    /\ UNCHANGED <<committed, rw, ro>>
    /\ UNCHANGED <<scrypt, call>>

\* The block the tree's writer appends.
TreeBlock == [id |-> "b1", payload |-> "p"]

\* The tree under one writer that also looks up what it has staged: entries
\* of one objectclass are added under arbitrary ids, parents and names.
NextTree ==
    \/ RwBegin(FirstWriter)
    \/ AddBlock(FirstWriter, TreeBlock)
    \/ \E id \in Ids, parent_id \in Ids, name \in Names :
          AddEntry(FirstWriter, id, parent_id, name, "Host")
    \/ \E parent_id \in Ids, name \in Names :
          RwFindChildNode(FirstWriter, parent_id, name)
    \/ \E path \in Paths : RwFindNode(FirstWriter, path)
    \/ \E path \in Paths : RwFindEntry(FirstWriter, path)
    \/ Commit(FirstWriter)
    \/ Drop(FirstWriter)

SpecTree == Init /\ [][NextTree]_vars

\* add_entry, called in a read-write transaction on a store that may refuse
\* a put.
AddEntryPutFails(w, id, parent_id, name, objectclass, failing_put) ==
    /\ rw[w].open
    /\ parent_id \in {RootId} \cup NodeIds(RwView(w))
    /\ LET r == add_entry_put_fails(RwView(w), id, parent_id, name, objectclass,
                                    failing_put)
       IN  /\ Cardinality(r.db.entries) <= MaxEntries
           /\ Cardinality(r.db.nodes) <= MaxEntries
           /\ rw' = [rw EXCEPT ![w].db = r.db]
           /\ ret' = Ret("add_entry", r.res)
    /\ UNCHANGED <<committed, ro>>
    /\ UNCHANGED <<scrypt, call>>

\* Transaction::commit of a read-write transaction that the store refuses:
\* the transaction is over and nothing of it is committed.
CommitFails(w) ==
    /\ rw[w].open
    /\ rw' = [rw EXCEPT ![w] = Closed]
    /\ ret' = Ret("commit", Err("Transaction"))
    /\ UNCHANGED <<committed, ro>>
    /\ UNCHANGED <<scrypt, call>>

\* The namespace on a store that may refuse writes: any put of add_entry and
\* any commit may fail.
NextFault ==
    \/ RwBegin(FirstWriter)
    \/ \E id \in Ids, parent_id \in Ids, name \in Names,
          failing_put \in EntryPuts \cup {"none"} :
          AddEntryPutFails(FirstWriter, id, parent_id, name, "Host", failing_put)
    \/ \E path \in Paths : RwFindEntry(FirstWriter, path)
    \/ Commit(FirstWriter)
    \/ CommitFails(FirstWriter)
    \/ Drop(FirstWriter)

SpecFault == Init /\ [][NextFault]_vars

----------------------------------------------------------------------------
\* Calls of derive and verify.

\* The store is created and left alone; scrypt is any one function.
InitPassword ==
    /\ committed = EmptyDb
    /\ rw = [w \in Writers |-> Closed]
    /\ ro = [r \in Readers |-> Closed]
    /\ ret = Ret("create_database", Ok("unit"))
    /\ scrypt \in Scrypts
    /\ call = Idle

\* derive into a buffer of n bytes.
Derive(alg, salt, password, n) ==
    /\ call' = [op |-> "derive", salt |-> salt, origin |-> password,
                derived |-> derive(alg, salt, password, n)]
    /\ UNCHANGED <<committed, rw, ro, ret, scrypt>>

\* verify of a password against the key derived last, under its salt.
Verify(alg, password) ==
    /\ call.op \in {"derive", "verify"}
    /\ call' = [op |-> "verify", salt |-> call.salt, origin |-> call.origin,
                derived |-> call.derived, password |-> password,
                res |-> verify(alg, call.salt, password, call.derived)]
    /\ UNCHANGED <<committed, rw, ro, ret, scrypt>>

NextPassword ==
    \/ \E alg \in PasswordAlgs, salt \in Salts, password \in Passwords,
          n \in 1..MaxKeyLen : Derive(alg, salt, password, n)
    \/ \E alg \in PasswordAlgs, password \in Passwords : Verify(alg, password)

SpecPassword == InitPassword /\ [][NextPassword]_vars

----------------------------------------------------------------------------
\* Calls of encode_bubblebabble.

\* The inputs of test_bubblebabble.
TestVectors == {
    \* "" -> "xexax"
      [bytes |-> <<>>,
       encoded |-> <<"x", "e", "x", "a", "x">>],
    \* "abcd" -> "ximek-domek-gyxox"
      [bytes |-> <<97, 98, 99, 100>>,
       encoded |-> <<"x", "i", "m", "e", "k", "-", "d", "o", "m", "e", "k", "-", "g",
                   "y", "x", "o", "x">>],
    \* "asdf" -> "ximel-finek-koxex"
      [bytes |-> <<97, 115, 100, 102>>,
       encoded |-> <<"x", "i", "m", "e", "l", "-", "f", "i", "n", "e", "k", "-", "k",
                   "o", "x", "e", "x">>],
    \* "0123456789" -> "xesaf-casef-fytef-hutif-lovof-nixix"
      [bytes |-> <<48, 49, 50, 51, 52, 53, 54, 55, 56, 57>>,
       encoded |-> <<"x", "e", "s", "a", "f", "-", "c", "a", "s", "e", "f", "-", "f",
                   "y", "t", "e", "f", "-", "h", "u", "t", "i", "f", "-", "l", "o", "v",
                   "o", "f", "-", "n", "i", "x", "i", "x">>],
    \* "Testing a sentence." -> "xihak-hysul-gapak-venyd-bumud-besek-heryl-gynek-vumuk-hyrox"
      [bytes |-> <<84, 101, 115, 116, 105, 110, 103, 32, 97, 32, 115, 101, 110, 116,
                 101, 110, 99, 101, 46>>,
       encoded |-> <<"x", "i", "h", "a", "k", "-", "h", "y", "s", "u", "l", "-", "g",
                   "a", "p", "a", "k", "-", "v", "e", "n", "y", "d", "-", "b", "u", "m",
                   "u", "d", "-", "b", "e", "s", "e", "k", "-", "h", "e", "r", "y", "l",
                   "-", "g", "y", "n", "e", "k", "-", "v", "u", "m", "u", "k", "-", "h",
                   "y", "r", "o", "x">>],
    \* "1234567890" -> "xesef-disof-gytuf-katof-movif-baxux"
      [bytes |-> <<49, 50, 51, 52, 53, 54, 55, 56, 57, 48>>,
       encoded |-> <<"x", "e", "s", "e", "f", "-", "d", "i", "s", "o", "f", "-", "g",
                   "y", "t", "u", "f", "-", "k", "a", "t", "o", "f", "-", "m", "o", "v",
                   "i", "f", "-", "b", "a", "x", "u", "x">>],
    \* "Pineapple" -> "xigak-nyryk-humil-bosek-sonax"
      [bytes |-> <<80, 105, 110, 101, 97, 112, 112, 108, 101>>,
       encoded |-> <<"x", "i", "g", "a", "k", "-", "n", "y", "r", "y", "k", "-", "h",
                   "u", "m", "i", "l", "-", "b", "o", "s", "e", "k", "-", "s", "o", "n",
                   "a", "x">>]}

BabbleInputs ==
    UNION {[1..n -> BabbleBytes] : n \in 0..MaxBytes}
        \cup {v.bytes : v \in TestVectors}

\* The store is created and left alone; the bytes to encode are given.
InitBabble ==
    /\ committed = EmptyDb
    /\ rw = [w \in Writers |-> Closed]
    /\ ro = [r \in Readers |-> Closed]
    /\ ret = Ret("create_database", Ok("unit"))
    /\ scrypt = CHOOSE f \in Scrypts : TRUE
    /\ call \in {[op |-> "bytes", bytes |-> b] : b \in BabbleInputs}

EncodeBubblebabble ==
    /\ call.op = "bytes"
    /\ call' = [op |-> "encode_bubblebabble", bytes |-> call.bytes,
                res |-> encode_bubblebabble(call.bytes)]
    /\ UNCHANGED <<committed, rw, ro, ret, scrypt>>

NextBabble == EncodeBubblebabble

SpecBabble == InitBabble /\ [][NextBabble]_vars

----------------------------------------------------------------------------
\* Calls of encode_bubblebabble on two inputs.

\* The two inputs have at most MaxPairBytes bytes each.
MaxPairBytes == 3

\* The byte values the two inputs are made of: zero and the bytes that
\* differ from it in the two low bits, in the four middle bits and in the two
\* high bits only.
PairBytes == {0, 1, 32, 192}

PairInputs == UNION {[1..n -> PairBytes] : n \in 0..MaxPairBytes}

\* The store is created and left alone; two byte sequences are given.
InitBabblePair ==
    /\ committed = EmptyDb
    /\ rw = [w \in Writers |-> Closed]
    /\ ro = [r \in Readers |-> Closed]
    /\ ret = Ret("create_database", Ok("unit"))
    /\ scrypt = CHOOSE f \in Scrypts : TRUE
    /\ call \in {[op |-> "two", bytes |-> b, other |-> o] :
                    b \in PairInputs, o \in PairInputs}

EncodeBoth ==
    /\ call.op = "two"
    /\ call' = [op |-> "encode_both", bytes |-> call.bytes, other |-> call.other,
                res |-> encode_bubblebabble(call.bytes),
                other_res |-> encode_bubblebabble(call.other)]
    /\ UNCHANGED <<committed, rw, ro, ret, scrypt>>

NextBabblePair == EncodeBoth

SpecBabblePair == InitBabblePair /\ [][NextBabblePair]_vars

----------------------------------------------------------------------------
\* Calls of generate.

\* The values the random number generator gives the six bytes that are
\* encoded, and the two bytes that become digits.
EncodedBytes == {0, 255}
DigitBytes == {0, 9, 10, 99, 100, 199, 255}

RandomBytes ==
    {e \o d : e \in [1..6 -> EncodedBytes], d \in [1..2 -> DigitBytes]}

\* The store is created and left alone; rng.fill has filled the 8 bytes.
InitGenerate ==
    /\ committed = EmptyDb
    /\ rw = [w \in Writers |-> Closed]
    /\ ro = [r \in Readers |-> Closed]
    /\ ret = Ret("create_database", Ok("unit"))
    /\ scrypt = CHOOSE f \in Scrypts : TRUE
    /\ call \in {[op |-> "fill", bytes |-> b] : b \in RandomBytes}

Generate ==
    /\ call.op = "fill"
    /\ call' = [op |-> "generate", bytes |-> call.bytes, res |-> generate(call.bytes)]
    /\ UNCHANGED <<committed, rw, ro, ret, scrypt>>

NextGenerate == Generate

SpecGenerate == InitGenerate /\ [][NextGenerate]_vars

----------------------------------------------------------------------------
\* The hash of a Witness and of the same Witness with its signatures permuted.

Witnesses ==
    {[signatures |-> sigs] :
        sigs \in UNION {[1..n -> Signatures] : n \in 0..MaxSignatures}}

\* The permutations of n places.
PermutationsOf(n) ==
    {p \in [1..n -> 1..n] : \A i \in 1..n, j \in 1..n : p[i] = p[j] => i = j}

Permuted(witness, p) ==
    [signatures |-> [i \in 1..Len(witness.signatures) |-> witness.signatures[p[i]]]]

\* The store is created and left alone; a Witness is given.
InitWitness ==
    /\ committed = EmptyDb
    /\ rw = [w \in Writers |-> Closed]
    /\ ro = [r \in Readers |-> Closed]
    /\ ret = Ret("create_database", Ok("unit"))
    /\ scrypt = CHOOSE f \in Scrypts : TRUE
    /\ call \in {[op |-> "witness", witness |-> w] : w \in Witnesses}

\* objecthash of the Witness and of the Witness permuted by p.
ObjectHashPermuted(p) ==
    /\ call.op = "witness"
    /\ call' = [op |-> "objecthash", witness |-> call.witness, permutation |-> p,
                digest |-> WitnessObjectHash(call.witness),
                permuted_digest |-> WitnessObjectHash(Permuted(call.witness, p))]
    /\ UNCHANGED <<committed, rw, ro, ret, scrypt>>

NextWitness ==
    \E p \in PermutationsOf(Len(call.witness.signatures)) : ObjectHashPermuted(p)

SpecWitness == InitWitness /\ [][NextWitness]_vars

----------------------------------------------------------------------------
\* What the claims are stated in.

\* The nodes a nodes table holds.
Nodes(db) == {NodeFromParentIdAndBytes(kv[1], kv[2]) : kv \in db.nodes}

\* The tables some transaction can see: the committed ones and those of the
\* open transactions.
Views ==
    {committed} \cup {RwView(w) : w \in {v \in Writers : rw[v].open}}
                \cup {RoView(r) : r \in {q \in Readers : ro[q].open}}

OpenWriters == {w \in Writers : rw[w].open}

SiblingNamesUnique(db) ==
    \A m \in Nodes(db), n \in Nodes(db) :
        (m.parent_id = n.parent_id /\ m.name = n.name) => m = n

\* C1: in the committed tables and in those of every open transaction no two
\* nodes stored under one parent_id have the same name, and add_entry with a
\* (parent_id, name) that some child with a different id has returns
\* EntryAlreadyExists.
C1_SiblingNamesUnique ==
    /\ \A db \in Views : SiblingNamesUnique(db)
    /\ \A w \in OpenWriters, id \in Ids, parent_id \in Ids, name \in Names,
          objectclass \in ObjectClasses :
          (\E n \in Nodes(RwView(w)) :
              n.parent_id = parent_id /\ n.name = name /\ n.id # id)
          => IsErr(add_entry(RwView(w), id, parent_id, name, objectclass).res,
                   "EntryAlreadyExists")

\* C1's case: add_entry has just been refused in a transaction in which a
\* parent has two children, of different names.
C1_Witness ==
    /\ ret = [op |-> "add_entry", res |-> "EntryAlreadyExists"]
    /\ \E w \in OpenWriters :
          \E m \in Nodes(RwView(w)), n \in Nodes(RwView(w)) :
              m.parent_id = n.parent_id /\ m.id # n.id /\ m.name # n.name

\* C2: add_entry with an id that has a row in the entries table returns
\* EntryAlreadyExists whatever the parent_id, name and objectclass, and leaves
\* the tables as they were.
C2_DuplicateIdRefused ==
    \A w \in OpenWriters, id \in Ids, parent_id \in Ids, name \in Names,
       objectclass \in ObjectClasses :
       id \in Keys(RwView(w).entries)
       => LET r == add_entry(RwView(w), id, parent_id, name, objectclass)
          IN  IsErr(r.res, "EntryAlreadyExists") /\ r.db = RwView(w)

\* C2's case: add_entry has just been refused in a transaction whose only
\* entry was staged in it and is not committed.
C2_Witness ==
    /\ ret = [op |-> "add_entry", res |-> "EntryAlreadyExists"]
    /\ committed.entries = {}
    /\ \E w \in OpenWriters : Cardinality(RwView(w).entries) = 1

\* C6, as claimed: in every table state every node whose parent_id is not the
\* root id has the id of some stored node as its parent_id.
C6_ParentExists ==
    \A db \in Views :
        \A n \in Nodes(db) :
            n.parent_id # RootId => \E m \in Nodes(db) : m.id = n.parent_id

\* C10: at most one read-write transaction is open; the committed tables hold
\* no two nodes and no two entries rows with the same id; and add_entry with an
\* id that a committed entry has does not succeed in any open transaction.
C10_WritersSerialized ==
    /\ Cardinality(OpenWriters) <= 1
    /\ \A m \in Nodes(committed), n \in Nodes(committed) : m.id = n.id => m = n
    /\ \A x \in committed.entries, y \in committed.entries : x[1] = y[1] => x = y
    /\ \A w \in OpenWriters, id \in Keys(committed.entries), parent_id \in Ids,
          name \in Names, objectclass \in ObjectClasses :
          ~IsOk(add_entry(RwView(w), id, parent_id, name, objectclass).res)

\* C10's case: a writer that has staged nothing of its own has just been
\* refused by add_entry, the committed tables holding two entries written by
\* earlier transactions.
C10_Witness ==
    /\ ret = [op |-> "add_entry", res |-> "EntryAlreadyExists"]
    /\ Cardinality(committed.entries) = 2
    /\ rw["w2"].open
    /\ RwView("w2") = committed

OpenReaders == {r \in Readers : ro[r].open}

\* The chains of nodes that paths were created along: the first node under
\* the root, each next one under the id of the one before, all ids distinct.
CreatedChains(db) ==
    {c \in UNION {[1..k -> Nodes(db)] : k \in 1..MaxPathLen} :
        /\ c[1].parent_id = RootId
        /\ \A i \in 2..Len(c) : c[i].parent_id = c[i - 1].id
        /\ \A i \in 1..Len(c), j \in 1..Len(c) : c[i].id = c[j].id => i = j}

PathOf(c) == [i \in 1..Len(c) |-> c[i].name]

\* C5: a successful add_entry stores the objectclass it is given under the id
\* it is given, and in a read-only transaction find_entry of a created path
\* returns the entry of the path's last node: its name, its id and the
\* objectclass stored under its id.
C5_RoundTrip ==
    /\ \A w \in OpenWriters, id \in Ids, parent_id \in Ids, name \in Names,
          objectclass \in ObjectClasses :
          LET r == add_entry(RwView(w), id, parent_id, name, objectclass)
          IN  IsOk(r.res) =>
                  /\ <<IdAsBytes(id), ObjectClassToString(objectclass)>> \in r.db.entries
                  /\ [id |-> id, parent_id |-> parent_id, name |-> name] \in Nodes(r.db)
    /\ \A r \in OpenReaders :
          \A c \in CreatedChains(RoView(r)) :
              LET res == find_entry(RoView(r), PathOf(c))
                  last == c[Len(c)]
              IN  /\ IsOk(res)
                  /\ res[2].node.name = last.name
                  /\ res[2].node.id = last.id
                  /\ <<IdAsBytes(last.id), ObjectClassToString(res[2].objectclass)>>
                         \in RoView(r).entries

\* C5's case: find_entry has just succeeded in a read-only transaction opened
\* on committed tables that hold a created path of two components.
C5_Witness ==
    /\ ret = [op |-> "find_entry", res |-> "Ok"]
    /\ \E r \in OpenReaders :
          /\ RoView(r) = committed
          /\ \E c \in CreatedChains(RoView(r)) : Len(c) = 2

\* C9: a read-only transaction reads the tables committed when it began for as
\* long as it is open, whatever read-write transactions stage or commit
\* meanwhile; an open writer can always commit and a reader can always begin.
C9_SnapshotIsolation ==
    /\ [](\A w \in OpenWriters : ENABLED Commit(w))
    /\ [](\A r \in Readers \ OpenReaders : ENABLED RoBegin(r))
    /\ [][\A r \in Readers :
             ro'[r].open =>
                 RoView(r)' = IF ro[r].open THEN RoView(r) ELSE committed]_vars

\* C9's case: a reader opened on the empty store has just been answered
\* NotFound, a write transaction having committed nodes since it began.
C9_Witness ==
    /\ ret = [op |-> "find_entry", res |-> "NotFound"]
    /\ \E r \in OpenReaders : RoView(r).nodes = {} /\ committed.nodes # {}

\* C3: add_block with a block whose id is in the blocks table returns
\* EntryAlreadyExists and leaves the tables, and so the bytes under that id,
\* as they were, whatever the block's payload.
C3_DuplicateBlockRefused ==
    \A w \in OpenWriters, block \in Blocks :
        block.id \in Keys(RwView(w).blocks)
        => LET r == add_block(RwView(w), block)
           IN  IsErr(r.res, "EntryAlreadyExists") /\ r.db = RwView(w)

\* C3's case: add_block has just been refused in a transaction that sees one
\* block committed earlier and one it wrote itself.
C3_Witness ==
    /\ ret = [op |-> "add_block", res |-> "EntryAlreadyExists"]
    /\ Cardinality(committed.blocks) = 1
    /\ \E w \in OpenWriters : Cardinality(RwView(w).blocks) = 2

\* C4: every step keeps each committed block: its id stays in the committed
\* blocks table, with the same bytes and no others.
C4_LogAppendOnly ==
    [][\A kv \in committed.blocks :
          kv[1] \in Keys(committed'.blocks)
          /\ Vals(committed'.blocks, kv[1]) = {kv[2]}]_vars

\* C4's case: a transaction has just committed a further block, and a reader
\* opened before still shows the block committed earlier, unchanged.
C4_Witness ==
    /\ ret = [op |-> "commit", res |-> "Ok"]
    /\ \E r \in OpenReaders :
          /\ RoView(r).blocks # {}
          /\ RoView(r).blocks # committed.blocks
          /\ RoView(r).blocks \subseteq committed.blocks

\* C8: a step that drops a read-write transaction leaves the committed tables
\* as they are, a step that commits one makes its tables the committed ones,
\* no other step changes the committed tables, and a transaction that begins
\* sees the committed tables.
C8_Atomicity ==
    [][/\ \A w \in OpenWriters :
             ~rw'[w].open =>
                 committed' = IF ret'.op = "commit" THEN RwView(w) ELSE committed
       /\ (\A w \in OpenWriters : rw'[w].open) => committed' = committed
       /\ \A w \in Writers \ OpenWriters : rw'[w].open => RwView(w)' = committed
       /\ \A r \in Readers \ OpenReaders : ro'[r].open => RoView(r)' = committed]_vars

\* C8's case: an operation has just returned an error in a transaction that
\* has staged a block and an entry on top of committed ones; it is dropped or
\* committed next.
C8_Witness ==
    /\ ret.res = "EntryAlreadyExists"
    /\ committed.blocks # {}
    /\ committed.entries # {}
    /\ \E w \in OpenWriters :
          /\ RwView(w).blocks # committed.blocks
          /\ RwView(w).entries # committed.entries

\* C7, as claimed: when every entry was added under the id next_available_id
\* had just returned, the id next_available_id returns in a read-write
\* transaction is greater than every id a node or an entry of that
\* transaction's tables has.
C7_IdsStrictlyIncreasing ==
    \A w \in OpenWriters :
        \A used \in {n.id : n \in Nodes(RwView(w))} \cup Keys(RwView(w).entries) :
            next_available_id(RwView(w))[2] > IdFromBytes(used)

\* C11, as claimed: verify of a password against a key derived under the same
\* salt answers true when the password is the one the key was derived from
\* and false when it is any other, whatever the length of the key; and derive
\* gives the key again when it is called again with the same inputs.
C11_VerifyExact ==
    call.op = "verify" =>
        /\ call.res = (call.password = call.origin)
        /\ \A alg \in PasswordAlgs :
              derive(alg, call.salt, call.origin, Len(call.derived)) = call.derived

\* The Bubble Babble encoding, stated pair by pair: the checksum after k full
\* pairs, the six characters of pair k, the final triple.
RECURSIVE BabbleChecksum(_, _)
BabbleChecksum(bytes, k) ==
    IF k = 0
    THEN 1
    ELSE ((BabbleChecksum(bytes, k - 1) * 5) + (bytes[(2 * k) - 1] * 7) + bytes[2 * k]) % 36

BabbleTriple(byte, c) ==
    <<vowels[(((byte \div 64) + c) % 6) + 1],
      consonants[((byte \div 4) % 16) + 1],
      vowels[(((byte % 4) + (c \div 6)) % 6) + 1]>>

BabblePair(bytes, k) ==
    BabbleTriple(bytes[(2 * k) - 1], BabbleChecksum(bytes, k - 1))
        \o <<consonants[(bytes[2 * k] \div 16) + 1], "-",
             consonants[(bytes[2 * k] % 16) + 1]>>

RECURSIVE BabblePairs(_, _)
BabblePairs(bytes, k) ==
    IF k = 0 THEN <<>> ELSE BabblePairs(bytes, k - 1) \o BabblePair(bytes, k)

BabbleReference(bytes) ==
    LET pairs == Len(bytes) \div 2
        c == BabbleChecksum(bytes, pairs)
        final == IF Len(bytes) % 2 = 0
                 THEN <<vowels[(c % 6) + 1], "x", vowels[(c \div 6) + 1]>>
                 ELSE BabbleTriple(bytes[Len(bytes)], c)
    IN  <<"x">> \o BabblePairs(bytes, pairs) \o final \o <<"x">>

\* C12: the result of encode_bubblebabble is the Bubble Babble encoding of
\* its input, and it is the expected string for each input of
\* test_bubblebabble ("" gives "xexax", "abcd" gives "ximek-domek-gyxox",
\* "Pineapple" gives "xigak-nyryk-humil-bosek-sonax").
C12_BubbleBabble ==
    call.op = "encode_bubblebabble" =>
        /\ call.res = BabbleReference(call.bytes)
        /\ \A v \in TestVectors : call.bytes = v.bytes => call.res = v.encoded

\* C12's case: an input of two full pairs and a last odd byte, none of them
\* zero, has been encoded.
C12_Witness ==
    /\ call.op = "encode_bubblebabble"
    /\ Len(call.bytes) >= 5
    /\ Len(call.bytes) % 2 = 1
    /\ \A i \in 1..Len(call.bytes) : call.bytes[i] # 0

\* C13: in a read-write transaction next_available_id returns the successor
\* of the root id when the transaction's nodes table is empty, and otherwise
\* the successor of the id that is the greatest key of that table, staged
\* writes included; the call writes nothing, so that a further call finds the
\* same tables and returns the same id.
C13_NextAvailableId ==
    /\ [](\A w \in OpenWriters :
            LET res == next_available_id(RwView(w))
                keys == Keys(RwView(w).nodes)
            IN  /\ IsOk(res)
                /\ keys = {} => res[2] = IdNext(RootId)
                /\ keys # {} =>
                      \E k \in keys :
                          /\ \A j \in keys : j <= k
                          /\ res[2] = IdNext(IdFromBytes(k)))
    /\ [][ret'.op = "next_available_id" =>
             /\ ret'.res = "Ok"
             /\ committed' = committed /\ rw' = rw /\ ro' = ro
             /\ \A w \in OpenWriters :
                   next_available_id(RwView(w))' = next_available_id(RwView(w))]_vars

\* C13's case: next_available_id has just been called in a transaction that
\* has staged a node under a parent other than the root, on top of a
\* committed child of the root.
C13_Witness ==
    /\ ret.op = "next_available_id"
    /\ Keys(committed.nodes) = {RootId}
    /\ \E w \in OpenWriters :
          /\ \E k \in Keys(RwView(w).nodes) : k # RootId
          /\ next_available_id(RwView(w)) # next_available_id(committed)

\* The chains of nodes a path names: the first node under the root, each next
\* one under the id of the one before, each with the name of its component.
ChainsOf(db, path) ==
    {c \in [1..Len(path) -> Nodes(db)] :
        \A i \in 1..Len(path) :
            /\ c[i].name = path[i]
            /\ c[i].parent_id = IF i = 1 THEN RootId ELSE c[i - 1].id}

\* C14: find_node of the empty path is the root node; find_node of any other
\* path is the last node of the chain the path names from the root, and
\* NotFound when there is no such chain, whatever nodes have the names of the
\* path's later components elsewhere.
C14_FindNode ==
    \A db \in Views, path \in Paths :
        LET res == find_node(db, path)
        IN  /\ path = <<>> => res = Ok(NodeRoot)
            /\ (path # <<>> /\ ChainsOf(db, path) = {}) => res = Err("NotFound")
            /\ (path # <<>> /\ ChainsOf(db, path) # {}) =>
                  /\ IsOk(res)
                  /\ \E c \in ChainsOf(db, path) : res[2] = c[Len(path)]

\* C14's case: find_node has just returned NotFound for a path whose first
\* component is not a child of the root while its second component is the
\* name of a child of the root.
C14_Witness ==
    /\ ret = [op |-> "find_node", res |-> "NotFound"]
    /\ \E w \in OpenWriters, path \in Paths :
          /\ Len(path) = 2
          /\ IsErr(find_child_node(RwView(w), RootId, path[1]), "NotFound")
          /\ IsOk(find_child_node(RwView(w), RootId, path[2]))

\* C15: find_child_node(parent_id, name) returns NotFound when no value
\* stored under parent_id has the name, and otherwise the node of the first
\* such value in stored order, with parent_id as its parent; a value stored
\* under another key is never returned.
C15_FindChildNode ==
    \A db \in Views, parent_id \in Ids, name \in Names :
        LET res == find_child_node(db, parent_id, name)
            named == {v \in Vals(db.nodes, IdAsBytes(parent_id)) : v[2] = name}
        IN  /\ named = {} => res = Err("NotFound")
            /\ named # {} =>
                  /\ IsOk(res)
                  /\ res[2].parent_id = parent_id
                  /\ res[2].name = name
                  /\ NodeToBytes(res[2]) \in named
                  /\ \A v \in named : ValLeq(NodeToBytes(res[2]), v)

\* C15's case: find_child_node has just returned NotFound for a parent that
\* has a child of another name, while a greater key has a child of the name
\* asked for.
C15_Witness ==
    /\ ret = [op |-> "find_child_node", res |-> "NotFound"]
    /\ \E w \in OpenWriters, parent_id \in Ids, name \in Names :
          /\ Vals(RwView(w).nodes, IdAsBytes(parent_id)) # {}
          /\ IsErr(find_child_node(RwView(w), parent_id, name), "NotFound")
          /\ \E kv \in RwView(w).nodes : kv[1] > IdAsBytes(parent_id) /\ kv[2][2] = name

\* C16: find_entry returns NotFound when the path names no chain of nodes
\* from the root, DbCorrupt when it names one whose last node (the root for
\* the empty path) has no row, or no row that decodes, in the entries table,
\* and the entry otherwise.
C16_NotFoundOrDbCorrupt ==
    \A db \in Views, path \in Paths :
        LET res == find_entry(db, path)
            resolved == path = <<>> \/ ChainsOf(db, path) # {}
            last_id == IF path = <<>>
                       THEN RootId
                       ELSE (CHOOSE c \in ChainsOf(db, path) : TRUE)[Len(path)].id
            decodable == {kv \in db.entries :
                             \E oc \in ObjectClasses : ObjectClassToString(oc) = kv[2]}
        IN  /\ ~resolved => res = Err("NotFound")
            /\ (resolved /\ IdAsBytes(last_id) \notin Keys(decodable)) =>
                  res = Err("DbCorrupt")
            /\ (resolved /\ IdAsBytes(last_id) \in Keys(decodable)) => IsOk(res)

\* C16's case: find_entry has just returned DbCorrupt in a transaction whose
\* tables hold nodes and entries: the path resolves but its node has no row in
\* the entries table.
C16_Witness ==
    /\ ret = [op |-> "find_entry", res |-> "DbCorrupt"]
    /\ \E w \in OpenWriters :
          /\ RwView(w).nodes # {}
          /\ \E path \in Paths :
                /\ IsOk(find_node(RwView(w), path))
                /\ IsErr(Get(RwView(w), "entries", IdAsBytes(find_node(RwView(w), path)[2].id)),
                         "NotFound")
                /\ \E other \in Paths : IsErr(find_entry(RwView(w), other), "NotFound")

\* C17: add_entry(id, parent_id, name, objectclass) that succeeds adds the
\* one value of the node to the values under parent_id in the nodes table and
\* the one row of id in the entries table, neither of which was there; it
\* leaves every other row of the two tables and the blocks table as they
\* were, and it returns the entry of that id, parent_id, name and objectclass.
C17_AddEntryFrame ==
    \A w \in OpenWriters, id \in Ids, parent_id \in Ids, name \in Names,
       objectclass \in ObjectClasses :
       LET db == RwView(w)
           r == add_entry(db, id, parent_id, name, objectclass)
           node == [id |-> id, parent_id |-> parent_id, name |-> name]
           node_row == <<IdAsBytes(parent_id), NodeToBytes(node)>>
           entry_row == <<IdAsBytes(id), ObjectClassToString(objectclass)>>
       IN  IsOk(r.res) =>
               /\ node_row \notin db.nodes
               /\ r.db.nodes = db.nodes \cup {node_row}
               /\ IdAsBytes(id) \notin Keys(db.entries)
               /\ r.db.entries = db.entries \cup {entry_row}
               /\ r.db.blocks = db.blocks
               /\ r.res[2] = [node |-> node, objectclass |-> objectclass]

\* C17's case: add_entry has just succeeded in a transaction that holds a
\* block and in which a parent other than the root has two children.
C17_Witness ==
    /\ ret = [op |-> "add_entry", res |-> "Ok"]
    /\ \E w \in OpenWriters :
          /\ RwView(w).blocks # {}
          /\ \E m \in Nodes(RwView(w)), n \in Nodes(RwView(w)) :
                m.parent_id = n.parent_id /\ m.parent_id # RootId /\ m.id # n.id

\* The number a string of decimal digits denotes; -1 when a character is not
\* a digit.
RECURSIVE DigitsValue(_)
DigitsValue(digits) ==
    IF digits = <<>>
    THEN 0
    ELSE LET last == digits[Len(digits)]
             rest == DigitsValue(SubSeq(digits, 1, Len(digits) - 1))
         IN  IF rest < 0 \/ ~\E d \in 1..10 : DecimalDigits[d] = last
             THEN -1
             ELSE (rest * 10) + (CHOOSE d \in 1..10 : DecimalDigits[d] = last) - 1

\* C18: the string generate returns is "ITHOS-GENPASS-", the 23 characters of
\* the Bubble Babble encoding of the first 6 bytes, "-", two digits that
\* denote byte 7 modulo 100 and three digits that denote byte 8: 43
\* characters whatever the 8 bytes are.
C18_GenerateFormat ==
    call.op = "generate" =>
        /\ Len(call.res) = 43
        /\ SubSeq(call.res, 1, 14) = GENPASS_PREFIX \o <<"-">>
        /\ SubSeq(call.res, 15, 37) = BabbleReference(SubSeq(call.bytes, 1, 6))
        /\ call.res[38] = "-"
        /\ DigitsValue(SubSeq(call.res, 39, 40)) = call.bytes[7] % 100
        /\ DigitsValue(SubSeq(call.res, 41, 43)) = call.bytes[8]

\* C18's case: generate has been called on bytes whose byte 7 is 100 or more
\* and leaves a remainder of one digit, and whose byte 8 has fewer than three
\* digits.
C18_Witness ==
    /\ call.op = "generate"
    /\ call.bytes[7] >= 100
    /\ call.bytes[7] % 100 < 10
    /\ call.bytes[8] < 100
    /\ call.bytes[1] # call.bytes[2]

\* C19, as claimed: the hash of a Witness is the digest of the record whose
\* one field "signatures" is the digest of the list of signatures, and every
\* permutation of the list other than the identity changes the hash.
C19_AnyPermutationChangesHash ==
    call.op = "objecthash" =>
        /\ call.digest = StructHash([signatures |->
               ListHash([i \in 1..Len(call.witness.signatures) |->
                            SignatureHash(call.witness.signatures[i])])])
        /\ (\E i \in DOMAIN call.permutation : call.permutation[i] # i)
              => call.permuted_digest # call.digest

\* C19: the hash of a Witness is the digest of the record whose one field
\* "signatures" is the digest of the list of signatures; a permutation that
\* leaves the list of signatures as it was leaves the hash as it was, and a
\* permutation that changes the list changes the hash.
C19_OrderSensitive ==
    call.op = "objecthash" =>
        /\ call.digest = StructHash([signatures |->
               ListHash([i \in 1..Len(call.witness.signatures) |->
                            SignatureHash(call.witness.signatures[i])])])
        /\ (Permuted(call.witness, call.permutation) = call.witness)
              <=> (call.permuted_digest = call.digest)

\* C19's case: a Witness of three signatures, two of them the same, has been
\* hashed beside a permutation of it that changes the list.
C19_Witness ==
    /\ call.op = "objecthash"
    /\ Len(call.witness.signatures) = 3
    /\ Cardinality({call.witness.signatures[i] : i \in 1..3}) = 2
    /\ Permuted(call.witness, call.permutation) # call.witness

\* C20, as claimed: a step in which add_entry returns an error, whichever it
\* is, leaves the tables of its transaction as they were, and the committed
\* tables never hold a node whose id has no row in the entries table.
C20_AddEntryAllOrNothing ==
    /\ [][(ret'.op = "add_entry" /\ ret'.res # "Ok") => rw' = rw]_vars
    /\ [](\A n \in Nodes(committed) : IdAsBytes(n.id) \in Keys(committed.entries))

\* C21, as claimed: in the committed tables and in those of every open
\* transaction, whatever add_entry calls succeeded or failed before, no two
\* nodes have the same id, and the ids of the nodes are the keys of the
\* entries table.
C21_IdsUniqueTablesInStep ==
    \A db \in Views :
        /\ \A m \in Nodes(db), n \in Nodes(db) : m.id = n.id => m = n
        /\ {IdAsBytes(n.id) : n \in Nodes(db)} = Keys(db.entries)

\* The nodes reached from a node by following parent_id at most k times, the
\* node itself left out.
RECURSIVE AncestorIds(_, _, _)
AncestorIds(db, id, k) ==
    IF k = 0
    THEN {}
    ELSE LET parents == {n.parent_id : n \in {m \in Nodes(db) : m.id = id}}
         IN  parents \cup UNION {AncestorIds(db, parent_id, k - 1) : parent_id \in parents}

\* C22, as claimed: in every table state no node has the root id, no node is
\* among its own ancestors, the root id is among the ancestors of every node,
\* and exactly one path resolves to each node through find_node.
C22_TreeRootedAtRoot ==
    \A db \in Views :
        \A n \in Nodes(db) :
            LET ancestors == AncestorIds(db, n.id, Cardinality(Nodes(db)))
            IN  /\ n.id # RootId
                /\ n.id \notin ancestors
                /\ RootId \in ancestors
                /\ Cardinality({path \in Paths : find_node(db, path) = Ok(n)}) = 1

\* C23, as claimed: find_entry never returns DbCorrupt, for any path, in a
\* store that only add_entry calls returning Ok or EntryAlreadyExists have
\* written.
C23_DbCorruptUnreachable ==
    ret.op = "find_entry" => ret.res \in {"Ok", "NotFound"}

\* C24: for every input of encode_bubblebabble the checksum after each pair
\* is in 0..35, so that the indices c % 6 and c / 6 are within the six
\* vowels; the result has 6 * (n / 2) + 5 characters for n bytes, all of them
\* vowels, consonants or '-', the first and the last an 'x'; and two inputs
\* that differ, in length or in a byte, have different results.
C24_TotalInjective ==
    call.op = "encode_both" =>
        /\ \A k \in 0..(Len(call.bytes) \div 2) :
              /\ BabbleChecksum(call.bytes, k) \in 0..35
              /\ (BabbleChecksum(call.bytes, k) % 6) + 1 \in DOMAIN vowels
              /\ (BabbleChecksum(call.bytes, k) \div 6) + 1 \in DOMAIN vowels
        /\ Len(call.res) = (6 * (Len(call.bytes) \div 2)) + 5
        /\ \A i \in 1..Len(call.res) :
              \/ \E v \in DOMAIN vowels : call.res[i] = vowels[v]
              \/ \E k \in DOMAIN consonants : call.res[i] = consonants[k]
              \/ call.res[i] = "-"
        /\ call.res[1] = "x"
        /\ call.res[Len(call.res)] = "x"
        /\ call.res = call.other_res => call.bytes = call.other

\* C24's case: two inputs of two and of three bytes, the same in their first
\* two bytes, have been encoded to results of the same length.
C24_Witness ==
    /\ call.op = "encode_both"
    /\ Len(call.bytes) = 2
    /\ Len(call.other) = 3
    /\ SubSeq(call.other, 1, 2) = call.bytes
    /\ Len(call.res) = Len(call.other_res)
    /\ call.res # call.other_res

====
